---- MODULE Spec2Model ----
(***************************************************************************)
(* Streaming text-to-speech narration pipeline of standard_ebooks_tts:     *)
(*   - the speech engine (src/lib/client/worker.ts), a web worker that     *)
(*     handles one request at a time and answers over an ordered channel;  *)
(*   - TTSWorkerService (src/lib/client/ttsWorkerService.ts), the request  *)
(*     queue with its busy flag and backoff timer;                         *)
(*   - createAudioQueue (same file), the playback queue;                   *)
(*   - the book page (src/routes/books/[...id]/+page.svelte), the          *)
(*     play/pause/resume/stop controller with one-ahead preloading.        *)
(* The main thread is one event loop: every action below is one task of    *)
(* that loop (a handler run to completion) or one step of the worker.      *)
(* Handlers are operators from a main-thread state record to the record    *)
(* after the handler, so a handler that calls another is their composition.*)
(***************************************************************************)
EXTENDS Integers, Sequences, FiniteSets, TLC

\* ------------------------------------------------------------- bounds
MaxReq == 3            \* generateSpeech calls of a client in a run
MaxStream == 1         \* segments the engine streams for one request of a client
MaxPageReq == 3        \* generateSpeech calls of the page in a run
MaxClicks == 3         \* clicks on the page's buttons in a run
MaxSeg == 2            \* segments the engine streams for one request
MaxWorkerErrors == 1   \* worker 'error' events in a run
NumUnits == 2          \* units of the chunk sequence (paragraphQueue.length)
MaxFetch == 1          \* handlePlay calls waiting for the book content at once
MaxBlobs == 4          \* addToQueue calls of a client in a run
MaxChapters == 2         \* chapters of a book
MaxParas == 2            \* paragraphs of a book, all chapters together
MaxEngineReq == 2      \* generateSpeech calls of the client of the engine protocol

\* ------------------------------------------------------------- constants
AlreadyStarted == "TTS: The session has already started"
OtherError == "other"
NoAudio == [req |-> 0, k |-> 0, g |-> 0]
NoTask == [op |-> "none", emptied |-> FALSE]
NoChapter == 0

VARIABLES
  \* TTSWorkerService
  worker,          \* TRUE while this.worker is a live Worker, FALSE when null
  config,          \* who registered the callbacks: "client" or "page"
  isBusy,
  requestQueue,    \* pending request ids, head first
  requests,        \* id -> [unit, valid, stale]: every generateSpeech call so far
  handle,          \* id -> state of the promise generateSpeech returned
  timers,          \* backoff timers (setTimeout 100 ms) not yet fired
  initialized,     \* the promise of initialize(): "pending", "resolved", "rejected"
  \* channels of the worker
  toWorker,        \* posted requests the worker has not handled yet
  toMain,          \* messages of the worker the main thread has not handled yet
  \* the engine (worker.ts)
  isProcessing, engReq, engCount,
  tts,             \* the module's start: "detecting" the device, "loading" the
                   \* model, "loaded" (listener registered) or "failed"
  \* createAudioQueue
  audioQueue,      \* queued segments, head first
  currentAudio,    \* the segment of currentAudio, or NoAudio for null
  audios,          \* audio elements with an event still to come
  objectUrls,      \* segments whose object URL is created and not revoked
  \* the page
  isGenerating, isPlaying, isPaused, currentParagraphIndex, paragraphQueue,
  error, fetches,
  bookDetails,     \* [title, author] of the book the page shows
  \* the content provider
  apiContent,      \* what a request for the content of the book is answered
  \* history (not program state)
  lateTimers,      \* backoff timers that fired after terminate()
  postLog,         \* request ids in the order they were posted to the worker
  answered,        \* id -> the terminal message handled for it, or "none"
  dropped,         \* requests terminate() removed from the pending list
  genCount,        \* segments the engine has generated so far
  workerErrors,    \* worker 'error' events so far
  notified,        \* id -> the callback run for its terminal message, or "none"
  lastTaken,       \* generation number of the segment playNext() took last
  cleared,         \* clearQueue() has run on a queue that held or played a segment
  pausedAt,        \* the segment that was playing at the last pause
  clicks,          \* clicks on the page's buttons so far
  aqTask,          \* the playback-queue operation a client's last task ran, and
                   \* whether the client's onQueueEmpty callback ran in it
  loadErrors       \* runs of the error callback for the failure to load the model

svcVars == <<worker, config, isBusy, requestQueue, requests, handle, timers, toWorker,
             initialized>>
engVars == <<isProcessing, engReq, engCount, genCount, tts>>
aqVars == <<audioQueue, currentAudio, audios, objectUrls>>
pageVars == <<isGenerating, isPlaying, isPaused, currentParagraphIndex, paragraphQueue,
              error, fetches, bookDetails, apiContent>>
histVars == <<postLog, answered, dropped, workerErrors, notified, lastTaken, cleared,
              pausedAt, clicks, lateTimers, aqTask, loadErrors>>
vars == <<svcVars, engVars, aqVars, pageVars, histVars, toMain>>

\* The state the main thread's handlers read and write.
St ==
  [worker |-> worker, config |-> config, isBusy |-> isBusy,
   requestQueue |-> requestQueue, requests |-> requests, handle |-> handle,
   timers |-> timers, toWorker |-> toWorker, initialized |-> initialized,
   audioQueue |-> audioQueue, currentAudio |-> currentAudio, audios |-> audios,
   objectUrls |-> objectUrls,
   isGenerating |-> isGenerating, isPlaying |-> isPlaying, isPaused |-> isPaused,
   currentParagraphIndex |-> currentParagraphIndex, paragraphQueue |-> paragraphQueue,
   error |-> error, fetches |-> fetches, bookDetails |-> bookDetails,
   postLog |-> postLog, answered |-> answered, dropped |-> dropped,
   lastTaken |-> lastTaken, cleared |-> cleared, pausedAt |-> pausedAt, cb |-> "none",
   op |-> "none", emptied |-> FALSE]

\* --------------------------------------------- the page's service callbacks
\* onError of the page that also empties the playback queue.
PageOnErrorClears(s) ==
  [s EXCEPT !.isGenerating = FALSE, !.error = TRUE, !.audioQueue = <<>>]

\* onError of the page: the generating flag is cleared and the message is shown.
PageOnError(s) == [s EXCEPT !.isGenerating = FALSE, !.error = TRUE]

\* onComplete of the page: only the generating flag changes.
PageOnComplete(s) == [s EXCEPT !.isGenerating = FALSE]

\* ------------------------------------------------------ TTSWorkerService
\* this.config.onError(...) where the callback cannot submit (inside
\* generateSpeech and processNextInQueue).
ConfigOnError(s) ==
  LET s1 == [s EXCEPT !.cb = "onError"] IN
  IF s1.config = "page" THEN PageOnError(s1) ELSE s1

\* processNextInQueue with the guard on the busy flag left out.
ProcessNextInQueueNoBusyCheck(s) ==
  IF s.requestQueue = <<>> THEN s
  ELSE LET id == Head(s.requestQueue) IN
       [s EXCEPT !.requestQueue = Tail(@), !.isBusy = TRUE,
                 !.toWorker = Append(@, id), !.handle[id] = "resolved",
                 !.postLog = Append(@, id)]

\* processNextInQueue that posts the request and leaves its promise unsettled.
ProcessNextInQueueNoResolve(s) ==
  IF s.requestQueue = <<>> \/ s.isBusy THEN s
  ELSE LET id == Head(s.requestQueue) IN
       [s EXCEPT !.requestQueue = Tail(@), !.isBusy = TRUE,
                 !.toWorker = Append(@, id), !.postLog = Append(@, id)]

RECURSIVE ProcessNextInQueue(_)
\* processNextInQueue(): nothing to do when the list is empty or the worker is
\* busy; otherwise shift the head, set the busy flag, post it and resolve its
\* promise. Without a worker the catch branch reports the error, clears the
\* flag, rejects the promise and tries the next request.
ProcessNextInQueue(s) ==
  IF s.requestQueue = <<>> \/ s.isBusy THEN s
  ELSE LET id == Head(s.requestQueue)
           s1 == [s EXCEPT !.requestQueue = Tail(@), !.isBusy = TRUE] IN
       IF ~s1.worker
       THEN ProcessNextInQueue(
              [ConfigOnError(s1) EXCEPT !.isBusy = FALSE, !.handle[id] = "rejected"])
       ELSE [s1 EXCEPT !.toWorker = Append(@, id), !.handle[id] = "resolved",
                       !.postLog = Append(@, id)]

\* A new request: its unit, whether the engine will accept its text and voice,
\* and two notes: waited (it was not posted by the call that submitted it) and
\* stale (a stop has happened since it was submitted).
NewRequest(s, unit, valid) ==
  [s EXCEPT !.requests = Append(@, [unit |-> unit, valid |-> valid,
                                     waited |-> s.isBusy, stale |-> FALSE]),
            !.handle = Append(@, "pending"),
            !.answered = Append(@, "none")]

\* generateSpeech that posts the request whether or not the worker is busy.
GenerateSpeechAlwaysPost(s, unit, valid) ==
  LET id == Len(s.requests) + 1
      s1 == NewRequest(s, unit, valid) IN
  IF ~s1.worker
  THEN [ConfigOnError(s1) EXCEPT !.handle[id] = "rejected"]
  ELSE ProcessNextInQueueNoBusyCheck([s1 EXCEPT !.requestQueue = Append(@, id)])

\* generateSpeech(text, voice, speed): without a worker the promise is rejected
\* at once; otherwise the request joins the pending list and is processed when
\* the busy flag is clear.
GenerateSpeech(s, unit, valid) ==
  LET id == Len(s.requests) + 1
      s1 == NewRequest(s, unit, valid) IN
  IF ~s1.worker
  THEN [ConfigOnError(s1) EXCEPT !.handle[id] = "rejected"]
  ELSE LET s2 == [s1 EXCEPT !.requestQueue = Append(@, id)] IN
       IF ~s2.isBusy THEN ProcessNextInQueue(s2) ELSE s2

\* terminate() that keeps the pending list.
TerminateKeepQueue(s) ==
  [s EXCEPT !.worker = FALSE, !.isBusy = FALSE, !.toWorker = <<>>,
            !.dropped = @ \cup {s.requestQueue[i] : i \in 1..Len(s.requestQueue)}]

\* terminate(): the worker is terminated and forgotten, the pending list is
\* emptied without settling any promise, the busy flag is cleared. Timers
\* that were set stay set.
Terminate(s) ==
  [s EXCEPT !.worker = FALSE, !.requestQueue = <<>>, !.isBusy = FALSE,
            !.toWorker = <<>>,
            !.dropped = @ \cup {s.requestQueue[i] : i \in 1..Len(s.requestQueue)}]

\* ------------------------------------------------------- the page, part 1
\* Strings are sequences of characters. The white space String.prototype.trim
\* removes, as far as the texts of the model contain it.
WhiteSpace == {" ", "\t", "\n"}

RECURSIVE TrimStart(_)
TrimStart(str) ==
  IF str # <<>> /\ Head(str) \in WhiteSpace THEN TrimStart(Tail(str)) ELSE str

RECURSIVE TrimEnd(_)
TrimEnd(str) ==
  IF str # <<>> /\ str[Len(str)] \in WhiteSpace
  THEN TrimEnd(SubSeq(str, 1, Len(str) - 1)) ELSE str

\* str.trim()
Trim(str) == TrimEnd(TrimStart(str))

\* a || b for strings: the empty string is falsy.
OrElse(a, b) == IF a # <<>> THEN a ELSE b

\* `${n}` for a natural number.
DecimalDigits == <<"0", "1", "2", "3", "4", "5", "6", "7", "8", "9">>

RECURSIVE NumberToString(_)
NumberToString(n) ==
  IF n < 10 THEN <<DecimalDigits[n + 1]>>
  ELSE NumberToString(n \div 10) \o <<DecimalDigits[(n % 10) + 1]>>

\* What fetchBookContent returns: null (fetched is FALSE) when the request
\* fails, otherwise the JSON of the answer, which has a chapter list (listed)
\* or not. A chapter is [chapterNumber, chapterTitle, chapterContents], the
\* title being empty when the chapter has none.
NullContent == [fetched |-> FALSE, listed |-> FALSE, chapters |-> <<>>]
UnlistedContent == [fetched |-> TRUE, listed |-> FALSE, chapters |-> <<>>]
EmptyContent == [fetched |-> TRUE, listed |-> TRUE, chapters |-> <<>>]

\* A chunk: chapterNumber is NoChapter where the code leaves it undefined.
TTSChunk(text, chapterNumber, isChapterTitle) ==
  [text |-> text, chapterNumber |-> chapterNumber, isChapterTitle |-> isChapterTitle]

\* The first chunk: title and author of the book, with their defaults.
TitleChunk(s) ==
  TTSChunk(OrElse(s.bookDetails.title, <<"B", "o", "o", "k">>)
             \o <<" ", "b", "y", " ">>
             \o OrElse(s.bookDetails.author,
                       <<"U", "n", "k", "n", "o", "w", "n", " ", "a", "u", "t", "h", "o", "r">>)
             \o <<".">>,
           NoChapter, FALSE)

\* The heading of a chapter: 'Chapter N: Title' or 'Chapter N'.
ChapterTitleChunk(chapter) ==
  LET number == <<"C", "h", "a", "p", "t", "e", "r", " ">>
                  \o NumberToString(chapter.chapterNumber) IN
  IF chapter.chapterTitle # <<>>
  THEN TTSChunk(number \o <<":", " ">> \o chapter.chapterTitle,
                chapter.chapterNumber, TRUE)
  ELSE TTSChunk(number, chapter.chapterNumber, TRUE)

\* chapterContents.forEach that pushes every paragraph.
RECURSIVE ParagraphChunksKeepsBlank(_, _)
ParagraphChunksKeepsBlank(chapter, paragraphs) ==
  IF paragraphs = <<>> THEN <<>>
  ELSE <<TTSChunk(Head(paragraphs), chapter.chapterNumber, FALSE)>>
         \o ParagraphChunksKeepsBlank(chapter, Tail(paragraphs))

\* chapterContents.forEach: a paragraph whose trim() is not empty is pushed, as
\* it is; any other is left out.
RECURSIVE ParagraphChunks(_, _)
ParagraphChunks(chapter, paragraphs) ==
  IF paragraphs = <<>> THEN <<>>
  ELSE (IF Trim(Head(paragraphs)) # <<>>
        THEN <<TTSChunk(Head(paragraphs), chapter.chapterNumber, FALSE)>>
        ELSE <<>>)
         \o ParagraphChunks(chapter, Tail(paragraphs))

\* content.chapters.forEach that pushes the heading of a chapter behind its
\* paragraphs.
RECURSIVE ChapterChunksHeadingLast(_)
ChapterChunksHeadingLast(chapters) ==
  IF chapters = <<>> THEN <<>>
  ELSE ParagraphChunks(Head(chapters), Head(chapters).chapterContents)
         \o <<ChapterTitleChunk(Head(chapters))>>
         \o ChapterChunksHeadingLast(Tail(chapters))

\* content.chapters.forEach: the heading, then the paragraphs.
RECURSIVE ChapterChunks(_)
ChapterChunks(chapters) ==
  IF chapters = <<>> THEN <<>>
  ELSE <<ChapterTitleChunk(Head(chapters))>>
         \o ParagraphChunks(Head(chapters), Head(chapters).chapterContents)
         \o ChapterChunks(Tail(chapters))

\* prepareTTSChunks that appends to the chunks the page already holds.
PrepareTTSChunksAppends(s, content) ==
  s.paragraphQueue \o <<TitleChunk(s)>> \o ChapterChunks(content.chapters)

\* prepareTTSChunks(content): a new list of the title chunk and the chunks of
\* the chapters. It reads bookDetails and writes nothing.
PrepareTTSChunks(s, content) == <<TitleChunk(s)>> \o ChapterChunks(content.chapters)

\* The details of a book with a title and an author, and of one without.
PlainDetails == [title |-> <<"T">>, author |-> <<"A">>]
BlankDetails == [title |-> <<>>, author |-> <<>>]

\* A content that yields n chunks (n >= 2): one chapter without title and
\* n - 2 paragraphs.
Book(n) ==
  [fetched |-> TRUE, listed |-> TRUE,
   chapters |-> <<[chapterNumber |-> 1, chapterTitle |-> <<>>,
                   chapterContents |-> [i \in 1..(n - 2) |-> <<"a">>]]>>]

\* What fetchBookContent may return on the book page: null, or a book of
\* NumUnits chunks.
Contents == {NullContent, Book(NumUnits)}

\* A longer book.
LongBook == Book(NumUnits + 1)

\* !chunk.text || chunk.text.trim() === ''
Blank(chunk) == chunk.text = <<>> \/ Trim(chunk.text) = <<>>

\* paragraphQueue[currentParagraphIndex], with the code's index from 0.
ChunkAt(s, i) == s.paragraphQueue[i + 1]

RECURSIVE ProcessNextParagraph(_)
\* processNextParagraph(): past the end the session ends; while paused nothing
\* happens; a blank chunk is skipped; otherwise the chunk at
\* currentParagraphIndex is submitted. A rejected promise sets the error and
\* clears the generating flag.
ProcessNextParagraph(s) ==
  IF s.currentParagraphIndex >= Len(s.paragraphQueue)
  THEN [s EXCEPT !.isPlaying = FALSE, !.isGenerating = FALSE]
  ELSE IF s.isPaused THEN s
  ELSE LET s1 == [s EXCEPT !.isGenerating = TRUE] IN
       IF Blank(ChunkAt(s1, s1.currentParagraphIndex))
       THEN ProcessNextParagraph([s1 EXCEPT !.currentParagraphIndex = @ + 1])
       ELSE LET s2 == GenerateSpeech(s1, s1.currentParagraphIndex, TRUE) IN
            IF s2.handle[Len(s2.requests)] = "rejected"
            THEN [s2 EXCEPT !.error = TRUE, !.isGenerating = FALSE]
            ELSE s2

\* preloadNextParagraph() that submits the chunk at currentParagraphIndex
\* and leaves the index where it is.
PreloadNextParagraphSameIndex(s) ==
  IF s.isPaused THEN s
  ELSE LET nextIndex == s.currentParagraphIndex + 1 IN
       IF nextIndex >= Len(s.paragraphQueue) THEN s
       ELSE GenerateSpeech(s, s.currentParagraphIndex, TRUE)

\* preloadNextParagraph(): while paused or at the last chunk nothing happens;
\* otherwise currentParagraphIndex moves to the next chunk and that chunk is
\* submitted.
PreloadNextParagraph(s) ==
  IF s.isPaused THEN s
  ELSE LET nextIndex == s.currentParagraphIndex + 1 IN
       IF nextIndex >= Len(s.paragraphQueue) THEN s
       ELSE LET s1 == [s EXCEPT !.currentParagraphIndex = nextIndex] IN
            IF Blank(ChunkAt(s1, nextIndex))
            THEN ProcessNextParagraph([s1 EXCEPT !.currentParagraphIndex = @ + 1])
            ELSE LET s2 == GenerateSpeech(s1, nextIndex, TRUE) IN
                 IF s2.handle[Len(s2.requests)] = "rejected"
                 THEN [s2 EXCEPT !.error = TRUE]
                 ELSE s2

\* onQueueEmpty of the page: the natural end of the book.
OnQueueEmpty(s) ==
  IF s.isPlaying /\ ~s.isPaused /\ s.currentParagraphIndex >= Len(s.paragraphQueue)
  THEN [s EXCEPT !.isPlaying = FALSE, !.isGenerating = FALSE]
  ELSE s

\* onPlaybackStarted of the page: preload the next chunk.
OnPlaybackStarted(s) ==
  IF s.isPlaying /\ ~s.isPaused /\ s.currentParagraphIndex < Len(s.paragraphQueue) - 1
  THEN PreloadNextParagraph(s)
  ELSE s

\* ------------------------------------------------------ createAudioQueue
\* options.onQueueEmpty: the page's callback, or a client's, which is noted.
OptionsOnQueueEmpty(s) ==
  IF s.config = "page" THEN OnQueueEmpty(s) ELSE [s EXCEPT !.emptied = TRUE]

\* options.onPlaybackStarted: the page's callback, or a client's.
OptionsOnPlaybackStarted(s) ==
  IF s.config = "page" THEN OnPlaybackStarted(s) ELSE s

\* An audio element: the segment it plays and where it is: "starting" (play()
\* called, not yet playing), "playing", or "aborted" (paused by clearQueue()
\* before it played, so that its play() promise is going to reject).
Element(seg, st) == [seg |-> seg, st |-> st]

\* playNext() that leaves the segment it plays in the queue.
PlayNextKeepsHead(s) ==
  IF s.audioQueue = <<>> THEN OptionsOnQueueEmpty([s EXCEPT !.currentAudio = NoAudio])
  ELSE LET nextBlob == Head(s.audioQueue) IN
       [s EXCEPT !.currentAudio = nextBlob,
                 !.audios = @ \cup {Element(nextBlob, "starting")},
                 !.objectUrls = @ \cup {nextBlob.g},
                 !.lastTaken = nextBlob.g]

\* playNext() that never runs onQueueEmpty.
PlayNextNoCallback(s) ==
  IF s.audioQueue = <<>> THEN [s EXCEPT !.currentAudio = NoAudio]
  ELSE LET nextBlob == Head(s.audioQueue) IN
       [s EXCEPT !.audioQueue = Tail(@), !.currentAudio = nextBlob,
                 !.audios = @ \cup {Element(nextBlob, "starting")},
                 !.objectUrls = @ \cup {nextBlob.g},
                 !.lastTaken = nextBlob.g]

\* playNext() that takes the newest queued segment.
PlayNextLast(s) ==
  IF s.audioQueue = <<>> THEN OptionsOnQueueEmpty([s EXCEPT !.currentAudio = NoAudio])
  ELSE LET n == Len(s.audioQueue)
           nextBlob == s.audioQueue[n] IN
       [s EXCEPT !.audioQueue = SubSeq(@, 1, n - 1), !.currentAudio = nextBlob,
                 !.audios = @ \cup {Element(nextBlob, "starting")},
                 !.objectUrls = @ \cup {nextBlob.g},
                 !.lastTaken = nextBlob.g]

\* playNext(): with nothing queued currentAudio becomes null and onQueueEmpty
\* runs; otherwise the head is taken, an object URL and an audio element are
\* made for it, it becomes currentAudio and play() is called on it.
PlayNext(s) ==
  IF s.audioQueue = <<>> THEN OptionsOnQueueEmpty([s EXCEPT !.currentAudio = NoAudio])
  ELSE LET nextBlob == Head(s.audioQueue) IN
       [s EXCEPT !.audioQueue = Tail(@), !.currentAudio = nextBlob,
                 !.audios = @ \cup {Element(nextBlob, "starting")},
                 !.objectUrls = @ \cup {nextBlob.g},
                 !.lastTaken = nextBlob.g]

\* addToQueue(audioBlob): append, and start playing when nothing is current.
AddToQueue(s, audioBlob) ==
  LET s1 == [s EXCEPT !.audioQueue = Append(@, audioBlob), !.op = "add"] IN
  IF s1.currentAudio = NoAudio THEN PlayNext(s1) ELSE s1

\* clearQueue(): the queue is emptied and currentAudio, if any, is paused and
\* forgotten. Pausing an element that plays silences it for good; pausing one
\* whose play() is still pending makes that promise reject later. No object
\* URL is revoked here.
ClearQueue(s) ==
  LET s1 == [s EXCEPT !.audioQueue = <<>>, !.op = "clear",
                      !.cleared = @ \/ s.audioQueue # <<>> \/ s.audios # {}] IN
  IF s1.currentAudio = NoAudio THEN s1
  ELSE [s1 EXCEPT !.currentAudio = NoAudio,
                  !.audios = (@ \ {Element(s.currentAudio, "playing"),
                                   Element(s.currentAudio, "starting")})
                             \cup (IF Element(s.currentAudio, "starting") \in s.audios
                                   THEN {Element(s.currentAudio, "aborted")} ELSE {})]

\* ------------------------------------------------------- the page, part 2
\* onStream of the page: every streamed segment goes to the playback queue.
PageOnStream(s, audio) == AddToQueue(s, audio)

\* handlePause() that also drops the pending requests.
HandlePauseCancels(s) ==
  IF ~s.isPlaying THEN s
  ELSE ClearQueue([s EXCEPT !.isPaused = TRUE, !.requestQueue = <<>>,
                            !.pausedAt = IF Element(s.currentAudio, "playing") \in s.audios
                                         THEN s.currentAudio ELSE NoAudio])

\* handlePause(): only while playing; the paused flag is set and the playback
\* queue is cleared.
HandlePause(s) ==
  IF ~s.isPlaying THEN s
  ELSE ClearQueue([s EXCEPT !.isPaused = TRUE,
                            !.pausedAt = IF Element(s.currentAudio, "playing") \in s.audios
                                         THEN s.currentAudio ELSE NoAudio])

\* handleResume(): only while playing and paused; the paused flag is cleared
\* and processNextParagraph() runs.
HandleResume(s) ==
  IF ~s.isPlaying \/ ~s.isPaused THEN s
  ELSE ProcessNextParagraph([s EXCEPT !.isPaused = FALSE])

\* handleStop(): all three flags are cleared, the playback queue is cleared and
\* currentParagraphIndex goes back to 0. Every request submitted so far now
\* belongs to a stale session.
HandleStop(s) ==
  ClearQueue([s EXCEPT !.isPlaying = FALSE, !.isPaused = FALSE, !.isGenerating = FALSE,
                       !.currentParagraphIndex = 0,
                       !.requests = [i \in 1..Len(s.requests) |->
                                       [s.requests[i] EXCEPT !.stale = TRUE]]])

\* handlePlay() up to its await: refused while generating; otherwise the flags
\* are set, the playback queue is cleared and the book content is fetched.
HandlePlay(s) ==
  IF s.isGenerating THEN s
  ELSE [ClearQueue([s EXCEPT !.error = FALSE, !.isGenerating = TRUE, !.isPlaying = TRUE,
                             !.isPaused = FALSE])
        EXCEPT !.fetches = @ + 1]

\* handlePlay() after its await that prepares the chunks of any content.
HandlePlayFetchedNoCheck(s, content) ==
  LET s1 == [s EXCEPT !.fetches = @ - 1] IN
  ProcessNextParagraph([s1 EXCEPT !.paragraphQueue = PrepareTTSChunks(s1, content),
                                  !.currentParagraphIndex = 0])

\* handlePlay() after its await: without chapters the session ends with an
\* error; otherwise the chunks are prepared, currentParagraphIndex is reset and
\* the first chunk is processed.
HandlePlayFetched(s, content) ==
  LET s1 == [s EXCEPT !.fetches = @ - 1] IN
  IF ~content.fetched \/ ~content.listed \/ Len(content.chapters) = 0
  THEN [s1 EXCEPT !.error = TRUE, !.isGenerating = FALSE, !.isPlaying = FALSE]
  ELSE ProcessNextParagraph([s1 EXCEPT !.paragraphQueue = PrepareTTSChunks(s1, content),
                                       !.currentParagraphIndex = 0])

\* ------------------------------------------- TTSWorkerService: onmessage
\* What a client's callback may do: nothing, or call generateSpeech with a
\* request the engine will accept ("valid") or refuse ("invalid").
SubChoices == {"none", "valid", "invalid"}

\* A callback of the client: it is noted and it may submit a request.
ClientCallback(s, name, sub) ==
  LET s1 == [s EXCEPT !.cb = name] IN
  IF sub = "none" THEN s1 ELSE GenerateSpeech(s1, 0, sub = "valid")

\* this.config.onStream(text, audio)
ConfigOnStream(s, audio, sub) ==
  IF s.config = "page" THEN PageOnStream([s EXCEPT !.cb = "onStream"], audio)
  ELSE ClientCallback(s, "onStream", sub)

\* this.config.onComplete(audio)
ConfigOnComplete(s, sub) ==
  IF s.config = "page" THEN PageOnComplete([s EXCEPT !.cb = "onComplete"])
  ELSE ClientCallback(s, "onComplete", sub)

\* this.config.onError(error) for a message of the worker
ConfigOnErrorMessage(s, sub) ==
  IF s.config = "page" THEN PageOnError([s EXCEPT !.cb = "onError"])
  ELSE ClientCallback(s, "onError", sub)

\* The messages of the worker. req, k and g say which request and which
\* segment a message is about; the program does not read them.
Msg(status, err, req, k, g) ==
  [status |-> status, error |-> err, req |-> req, k |-> k, g |-> g]

\* The segment a stream message carries.
SegOf(msg) == [req |-> msg.req, k |-> msg.k, g |-> msg.g]

\* case "error" that rejects the promise of the request.
OnErrorMessageRejects(s, msg, sub) ==
  LET s1 == ConfigOnErrorMessage(s, sub)
      s2 == [s1 EXCEPT !.isBusy = FALSE, !.handle[msg.req] = "rejected",
                       !.answered[msg.req] =
                          IF msg.error = AlreadyStarted THEN "busy" ELSE "error"] IN
  IF msg.error = AlreadyStarted THEN [s2 EXCEPT !.timers = @ + 1]
  ELSE ProcessNextInQueue(s2)

\* case "error" that leaves the busy flag set.
OnErrorMessageStaysBusy(s, msg, sub) ==
  LET s1 == ConfigOnErrorMessage(s, sub) IN
  [s1 EXCEPT !.answered[msg.req] =
                IF msg.error = AlreadyStarted THEN "busy" ELSE "error"]

\* case "error": the callback runs, the busy flag is cleared, and then either
\* a 100 ms timer is set ('already started') or the next request is processed.
OnErrorMessage(s, msg, sub) ==
  LET s1 == ConfigOnErrorMessage(s, sub)
      s2 == IF msg.req = 0 THEN [s1 EXCEPT !.isBusy = FALSE]
            ELSE [s1 EXCEPT !.isBusy = FALSE,
                            !.answered[msg.req] =
                               IF msg.error = AlreadyStarted THEN "busy" ELSE "error"] IN
  IF msg.error = AlreadyStarted THEN [s2 EXCEPT !.timers = @ + 1]
  ELSE ProcessNextInQueue(s2)

\* this.config.onDeviceDetected(device) and this.config.onReady(voices, device):
\* the page stores what it is told.
ConfigOnDeviceDetected(s, sub) ==
  IF s.config = "page" THEN [s EXCEPT !.cb = "onDeviceDetected"]
  ELSE ClientCallback(s, "onDeviceDetected", sub)

ConfigOnReady(s, sub) ==
  IF s.config = "page" THEN [s EXCEPT !.cb = "onReady"]
  ELSE ClientCallback(s, "onReady", sub)

\* case "ready": the callback runs and the promise of initialize() resolves.
OnReadyMessage(s, sub) ==
  LET s1 == ConfigOnReady(s, sub) IN
  [s1 EXCEPT !.initialized = IF @ = "pending" THEN "resolved" ELSE @]

\* case "complete" that leaves the next request in the pending list.
OnCompleteMessageNoDequeue(s, msg, sub) ==
  [ConfigOnComplete(s, sub) EXCEPT !.isBusy = FALSE, !.answered[msg.req] = "complete"]

\* case "complete": the callback runs, the busy flag is cleared and the next
\* request is processed.
OnCompleteMessage(s, msg, sub) ==
  ProcessNextInQueue(
    [ConfigOnComplete(s, sub) EXCEPT !.isBusy = FALSE, !.answered[msg.req] = "complete"])

\* worker.onmessage
OnMessage(s, msg, sub) ==
  CASE msg.status = "device" -> ConfigOnDeviceDetected(s, sub)
    [] msg.status = "ready" -> OnReadyMessage(s, sub)
    [] msg.status = "stream" -> ConfigOnStream(s, SegOf(msg), sub)
    [] msg.status = "complete" -> OnCompleteMessage(s, msg, sub)
    [] msg.status = "error" -> OnErrorMessage(s, msg, sub)

\* worker.onerror: the callback runs, the busy flag is cleared and the promise
\* of initialize() is rejected (without effect once it is settled); the
\* pending list is not processed.
OnWorkerError(s) ==
  [ConfigOnError(s) EXCEPT !.isBusy = FALSE,
                           !.initialized = IF @ = "pending" THEN "rejected" ELSE @]

\* The callback of setTimeout(..., 100).
OnTimer(s) == ProcessNextInQueue([s EXCEPT !.timers = @ - 1])

\* ------------------------------------------------------ audio element events
\* audio.onplay: playback of the element has started.
OnPlay(s, e) ==
  OptionsOnPlaybackStarted(
    [s EXCEPT !.audios = (@ \ {e}) \cup {Element(e.seg, "playing")}, !.op = "play"])

\* audio.onended: the element is finished; its object URL is revoked and the
\* next segment is played.
OnEnded(s, e) ==
  PlayNext([s EXCEPT !.audios = @ \ {e}, !.objectUrls = @ \ {e.seg.g}, !.op = "ended"])

\* The catch of audio.play() that releases the element and plays nothing.
OnPlayRejectedStalls(s, e) ==
  [s EXCEPT !.audios = @ \ {e}, !.objectUrls = @ \ {e.seg.g}, !.op = "failed"]

\* The catch of audio.play(): the element never played; its object URL is
\* revoked and the next segment is played.
OnPlayRejected(s, e) ==
  PlayNext([s EXCEPT !.audios = @ \ {e}, !.objectUrls = @ \ {e.seg.g}, !.op = "failed"])

\* ----------------------------------------------------------------- states
\* After construction and initialize(), with the model loaded ('ready' handled):
\* the worker is live and idle, nothing is pending, nothing is queued or
\* playing, the page is idle.
InitFor(c, details, content) ==
  /\ worker = TRUE /\ config = c /\ isBusy = FALSE
  /\ requestQueue = <<>> /\ requests = <<>> /\ handle = <<>> /\ timers = 0
  /\ toWorker = <<>> /\ toMain = <<>>
  /\ initialized = "resolved" /\ tts = "loaded" /\ loadErrors = 0
  /\ isProcessing = FALSE /\ engReq = 0 /\ engCount = 0 /\ genCount = 0
  /\ audioQueue = <<>> /\ currentAudio = NoAudio /\ audios = {} /\ objectUrls = {}
  /\ isGenerating = FALSE /\ isPlaying = FALSE /\ isPaused = FALSE
  /\ currentParagraphIndex = 0 /\ paragraphQueue = <<>>
  /\ error = FALSE /\ fetches = 0
  /\ bookDetails = details /\ apiContent = content
  /\ postLog = <<>> /\ answered = <<>> /\ dropped = {} /\ workerErrors = 0
  /\ notified = <<>> /\ lastTaken = 0 /\ cleared = FALSE /\ pausedAt = NoAudio
  /\ clicks = 0 /\ lateTimers = 0 /\ aqTask = NoTask

\* The same for a book with a title and an author, before the content
\* provider has been asked.
InitWith(c) == InitFor(c, PlainDetails, NullContent)

\* The state after a handler of the main thread that ended in record r.
Commit(r) ==
  /\ Len(r.requests) <= (IF r.config = "page" THEN MaxPageReq ELSE MaxReq)
  /\ r.fetches <= MaxFetch
  /\ worker' = r.worker /\ config' = r.config /\ isBusy' = r.isBusy
  /\ requestQueue' = r.requestQueue /\ requests' = r.requests /\ handle' = r.handle
  /\ timers' = r.timers /\ toWorker' = r.toWorker /\ initialized' = r.initialized
  /\ audioQueue' = r.audioQueue /\ currentAudio' = r.currentAudio /\ audios' = r.audios
  /\ objectUrls' = r.objectUrls
  /\ isGenerating' = r.isGenerating /\ isPlaying' = r.isPlaying /\ isPaused' = r.isPaused
  /\ currentParagraphIndex' = r.currentParagraphIndex
  /\ paragraphQueue' = r.paragraphQueue
  /\ error' = r.error /\ fetches' = r.fetches
  /\ bookDetails' = r.bookDetails /\ apiContent' = apiContent
  /\ postLog' = r.postLog /\ answered' = r.answered /\ dropped' = r.dropped
  /\ lastTaken' = r.lastTaken /\ cleared' = r.cleared /\ pausedAt' = r.pausedAt
  /\ aqTask' = IF r.config = "client" THEN [op |-> r.op, emptied |-> r.emptied]
                ELSE aqTask
  /\ notified' = [i \in 1..Len(r.requests) |->
                    IF i <= Len(notified) THEN notified[i] ELSE "none"]
  /\ loadErrors' = loadErrors

\* Commit(r) after the message msg, noting the callback run for a terminal one.
CommitMessage(r, msg) ==
  /\ Len(r.requests) <= (IF r.config = "page" THEN MaxPageReq ELSE MaxReq)
  /\ worker' = r.worker /\ config' = r.config /\ isBusy' = r.isBusy
  /\ requestQueue' = r.requestQueue /\ requests' = r.requests /\ handle' = r.handle
  /\ timers' = r.timers /\ toWorker' = r.toWorker /\ initialized' = r.initialized
  /\ audioQueue' = r.audioQueue /\ currentAudio' = r.currentAudio /\ audios' = r.audios
  /\ objectUrls' = r.objectUrls
  /\ isGenerating' = r.isGenerating /\ isPlaying' = r.isPlaying /\ isPaused' = r.isPaused
  /\ currentParagraphIndex' = r.currentParagraphIndex
  /\ paragraphQueue' = r.paragraphQueue
  /\ error' = r.error /\ fetches' = r.fetches
  /\ bookDetails' = r.bookDetails /\ apiContent' = apiContent
  /\ postLog' = r.postLog /\ answered' = r.answered /\ dropped' = r.dropped
  /\ lastTaken' = r.lastTaken /\ cleared' = r.cleared /\ pausedAt' = r.pausedAt
  /\ aqTask' = IF r.config = "client" THEN [op |-> r.op, emptied |-> r.emptied]
                ELSE aqTask
  /\ notified' = [i \in 1..Len(r.requests) |->
                    IF i = msg.req /\ msg.status # "stream" THEN r.cb
                    ELSE IF i <= Len(notified) THEN notified[i] ELSE "none"]
  /\ loadErrors' = IF msg.status = "error" /\ msg.req = 0 /\ r.cb = "onError"
                   THEN loadErrors + 1 ELSE loadErrors

\* ------------------------------------------------------------ the engine
\* The worker's message listener up to its await: empty text or an unknown
\* voice is refused, a request that arrives while another is processed is
\* refused with 'already started', any other request starts processing.
EngineReceive ==
  /\ worker /\ toWorker # <<>>
  /\ tts = "loaded"
  /\ LET id == Head(toWorker) IN
     /\ toWorker' = Tail(toWorker)
     /\ IF ~requests[id].valid
        THEN /\ toMain' = Append(toMain, Msg("error", OtherError, id, 0, 0))
             /\ UNCHANGED <<isProcessing, engReq, engCount>>
        ELSE IF isProcessing
        THEN /\ toMain' = Append(toMain, Msg("error", AlreadyStarted, id, 0, 0))
             /\ UNCHANGED <<isProcessing, engReq, engCount>>
        ELSE /\ isProcessing' = TRUE /\ engReq' = id /\ engCount' = 0
             /\ UNCHANGED toMain
  /\ UNCHANGED <<worker, config, isBusy, requestQueue, requests, handle, timers,
                 initialized, genCount, tts, aqVars, pageVars, histVars>>

\* processTextToSpeech: one more chunk of the stream is posted.
EngineStream ==
  /\ worker /\ isProcessing
  /\ engCount < (IF config = "page" THEN MaxSeg ELSE MaxStream)
  /\ engCount' = engCount + 1
  /\ genCount' = genCount + 1
  /\ toMain' = Append(toMain, Msg("stream", "", engReq, engCount + 1, genCount + 1))
  /\ UNCHANGED <<svcVars, isProcessing, engReq, tts, aqVars, pageVars, histVars>>

\* The end of processTextToSpeech that posts 'complete' and goes on processing.
EngineCompleteGoesOn ==
  /\ worker /\ isProcessing
  /\ Len(toMain) < MaxSeg + MaxReq
  /\ toMain' = Append(toMain, Msg("complete", "", engReq, engCount, 0))
  /\ UNCHANGED <<svcVars, engVars, aqVars, pageVars, histVars>>

\* processTextToSpeech: the stream is exhausted, 'complete' is posted, and the
\* listener's finally clears isProcessing.
EngineComplete ==
  /\ worker /\ isProcessing
  /\ toMain' = Append(toMain, Msg("complete", "", engReq, engCount, 0))
  /\ isProcessing' = FALSE /\ engReq' = 0 /\ engCount' = 0
  /\ UNCHANGED <<svcVars, genCount, tts, aqVars, pageVars, histVars>>

\* processTextToSpeech throws: the listener's catch posts the error and its
\* finally clears isProcessing.
EngineThrow ==
  /\ worker /\ isProcessing
  /\ toMain' = Append(toMain, Msg("error", OtherError, engReq, 0, 0))
  /\ isProcessing' = FALSE /\ engReq' = 0 /\ engCount' = 0
  /\ UNCHANGED <<svcVars, genCount, tts, aqVars, pageVars, histVars>>

\* The start of the module: the device is detected and reported.
EngineDevice ==
  /\ worker /\ tts = "detecting"
  /\ tts' = "loading"
  /\ toMain' = Append(toMain, Msg("device", "", 0, 0, 0))
  /\ UNCHANGED <<svcVars, isProcessing, engReq, engCount, genCount, aqVars, pageVars,
                 histVars>>

\* The model is loaded: 'ready' is posted and the message listener registered.
EngineLoaded ==
  /\ worker /\ tts = "loading"
  /\ tts' = "loaded"
  /\ toMain' = Append(toMain, Msg("ready", "", 0, 0, 0))
  /\ UNCHANGED <<svcVars, isProcessing, engReq, engCount, genCount, aqVars, pageVars,
                 histVars>>

\* A failed load that posts its 'error' and starts to load again.
EngineLoadFailsRetries ==
  /\ worker /\ tts = "loading"
  /\ toMain' = Append(toMain, Msg("error", OtherError, 0, 0, 0))
  /\ UNCHANGED <<svcVars, engVars, aqVars, pageVars, histVars>>

\* Loading the model throws (or the model has no voices): the catch posts one
\* 'error'; no listener is registered.
EngineLoadFails ==
  /\ worker /\ tts = "loading"
  /\ tts' = "failed"
  /\ toMain' = Append(toMain, Msg("error", OtherError, 0, 0, 0))
  /\ UNCHANGED <<svcVars, isProcessing, engReq, engCount, genCount, aqVars, pageVars,
                 histVars>>

\* A request arrives at a worker that has no message listener: nothing
\* handles it.
EngineNoListener ==
  /\ worker /\ tts # "loaded" /\ toWorker # <<>>
  /\ toWorker' = Tail(toWorker)
  /\ UNCHANGED <<worker, config, isBusy, requestQueue, requests, handle, timers,
                 initialized, engVars, toMain, aqVars, pageVars, histVars>>

\* ------------------------------------------------- tasks of the main thread
\* A message of the worker is handled; a client's callback may submit.
Deliver(sub) ==
  /\ worker /\ toMain # <<>>
  /\ toMain' = Tail(toMain)
  /\ CommitMessage(OnMessage(St, Head(toMain), sub), Head(toMain))
  /\ UNCHANGED <<engVars, workerErrors, clicks, lateTimers>>

\* A backoff timer fires.
TimerFires ==
  /\ timers > 0
  /\ Commit(OnTimer(St))
  /\ lateTimers' = IF worker THEN lateTimers ELSE lateTimers + 1
  /\ UNCHANGED <<engVars, toMain, workerErrors, clicks>>

\* The worker raises an 'error' event.
WorkerError ==
  /\ worker /\ workerErrors < MaxWorkerErrors
  /\ workerErrors' = workerErrors + 1
  /\ Commit(OnWorkerError(St))
  /\ UNCHANGED <<engVars, toMain, clicks, lateTimers>>

\* A client calls generateSpeech.
Submit(valid) ==
  /\ Commit(GenerateSpeech(St, 0, valid))
  /\ UNCHANGED <<engVars, toMain, workerErrors, clicks, lateTimers>>

\* A client calls terminate(): the worker and its undelivered messages are gone.
DoTerminate ==
  /\ worker
  /\ Commit(Terminate(St))
  /\ toMain' = <<>>
  /\ isProcessing' = FALSE /\ engReq' = 0 /\ engCount' = 0
  /\ UNCHANGED <<genCount, tts, workerErrors, clicks, lateTimers>>

\* The buttons of the page; each is offered only in the states the page shows it.
UserPlay ==
  /\ ~(isGenerating /\ ~isPaused)
  /\ ~isGenerating
  /\ Commit(HandlePlay(St))
  /\ clicks < MaxClicks /\ clicks' = clicks + 1
  /\ UNCHANGED <<engVars, toMain, workerErrors, lateTimers>>

FetchReturns(content) ==
  /\ fetches > 0
  /\ Commit(HandlePlayFetched(St, content))
  /\ UNCHANGED <<engVars, toMain, workerErrors, clicks, lateTimers>>

UserPause ==
  /\ isPlaying /\ ~isPaused
  /\ Commit(HandlePause(St))
  /\ clicks < MaxClicks /\ clicks' = clicks + 1
  /\ UNCHANGED <<engVars, toMain, workerErrors, lateTimers>>

UserResume ==
  /\ isPlaying /\ isPaused
  /\ Commit(HandleResume(St))
  /\ clicks < MaxClicks /\ clicks' = clicks + 1
  /\ UNCHANGED <<engVars, toMain, workerErrors, lateTimers>>

UserStop ==
  /\ isPlaying
  /\ Commit(HandleStop(St))
  /\ clicks < MaxClicks /\ clicks' = clicks + 1
  /\ UNCHANGED <<engVars, toMain, workerErrors, lateTimers>>

\* The events of the audio elements.
PlayStarts ==
  \E e \in audios :
    /\ e.st = "starting"
    /\ Commit(OnPlay(St, e))
    /\ UNCHANGED <<engVars, toMain, workerErrors, clicks, lateTimers>>

PlayFails ==
  \E e \in audios :
    /\ e.st \in {"starting", "aborted"}
    /\ Commit(OnPlayRejected(St, e))
    /\ UNCHANGED <<engVars, toMain, workerErrors, clicks, lateTimers>>

PlayEnds ==
  \E e \in audios :
    /\ e.st = "playing"
    /\ Commit(OnEnded(St, e))
    /\ UNCHANGED <<engVars, toMain, workerErrors, clicks, lateTimers>>

\* ----------------------------------------------------------- specifications
Engine == EngineReceive \/ EngineStream \/ EngineComplete \/ EngineThrow

\* The request queue under an arbitrary client.
InitQueue == InitWith("client")

NextQueue ==
  \/ \E valid \in BOOLEAN : Submit(valid)
  \/ \E sub \in SubChoices : Deliver(sub)
  \/ TimerFires
  \/ WorkerError
  \/ DoTerminate
  \/ Engine

SpecQueue == InitQueue /\ [][NextQueue]_vars

\* The book page.
Init == InitWith("page")

Next ==
  \/ UserPlay
  \/ \E content \in Contents : FetchReturns(content)
  \/ UserPause
  \/ UserResume
  \/ UserStop
  \/ Deliver("none")
  \/ PlayStarts
  \/ PlayFails
  \/ PlayEnds
  \/ Engine

Spec == Init /\ [][Next]_vars

\* The book page when the user only ever presses Read Aloud, and only while
\* nothing is queued or playing: the runs in which clearQueue() removes nothing.
UserPlayIdle ==
  /\ ~isGenerating
  /\ audioQueue = <<>> /\ audios = {}
  /\ Commit(HandlePlay(St))
  /\ UNCHANGED <<engVars, toMain, workerErrors, clicks, lateTimers>>

NextNarrate ==
  \/ UserPlayIdle
  \/ \E content \in Contents : FetchReturns(content)
  \/ Deliver("none")
  \/ PlayStarts
  \/ PlayFails
  \/ PlayEnds
  \/ Engine

SpecNarrate == Init /\ [][NextNarrate]_vars


\* One narration of a longer book: the user presses Read Aloud once, on the
\* idle page, and never pauses or stops; the content is fetched; the engine
\* may fail and a segment may fail to start. The program keeps taking its
\* steps: no message, audio event or engine step is put off for ever.
UserPlayFirst == clicks = 0 /\ UserPlay

NextSession ==
  \/ UserPlayFirst
  \/ FetchReturns(LongBook)
  \/ Deliver("none")
  \/ PlayStarts
  \/ PlayFails
  \/ PlayEnds
  \/ Engine

SpecSession == Init /\ [][NextSession]_vars /\ WF_vars(NextSession)

\* The same narration without any error: the engine never throws and streams
\* at least one segment for every request, and every segment starts.
EngineCompleteSpoken == engCount >= 1 /\ EngineComplete

NextHappy ==
  \/ UserPlayFirst
  \/ FetchReturns(LongBook)
  \/ Deliver("none")
  \/ PlayStarts
  \/ PlayEnds
  \/ EngineReceive
  \/ EngineStream
  \/ EngineCompleteSpoken

SpecHappy == Init /\ [][NextHappy]_vars /\ WF_vars(NextHappy)

\* One narration in which the user presses Read Aloud once, on the idle page,
\* and then Pause, at any moment.
NextPause ==
  \/ UserPlayFirst
  \/ \E content \in Contents : FetchReturns(content)
  \/ UserPause
  \/ Deliver("none")
  \/ PlayStarts
  \/ PlayFails
  \/ PlayEnds
  \/ Engine

SpecPause == Init /\ [][NextPause]_vars

\* The service and its engine under a client that only submits requests, with
\* an engine that keeps taking its steps.
\* A client that calls generateSpeech a few times.
SubmitFew(valid) == Len(requests) < MaxEngineReq /\ Submit(valid)

NextEngine ==
  \/ \E valid \in BOOLEAN : SubmitFew(valid)
  \/ Deliver("none")
  \/ TimerFires
  \/ WorkerError
  \/ Engine

SpecEngine == InitQueue /\ [][NextEngine]_vars /\ WF_vars(Engine)

\* The service from the call of initialize() on, while the worker detects the
\* device and loads the model, under a client that submits requests.
InitLoad ==
  /\ worker = TRUE /\ config = "client" /\ isBusy = FALSE
  /\ requestQueue = <<>> /\ requests = <<>> /\ handle = <<>> /\ timers = 0
  /\ toWorker = <<>> /\ toMain = <<>>
  /\ initialized = "pending" /\ tts = "detecting" /\ loadErrors = 0
  /\ isProcessing = FALSE /\ engReq = 0 /\ engCount = 0 /\ genCount = 0
  /\ audioQueue = <<>> /\ currentAudio = NoAudio /\ audios = {} /\ objectUrls = {}
  /\ isGenerating = FALSE /\ isPlaying = FALSE /\ isPaused = FALSE
  /\ currentParagraphIndex = 0 /\ paragraphQueue = <<>>
  /\ error = FALSE /\ fetches = 0
  /\ bookDetails = PlainDetails /\ apiContent = NullContent
  /\ postLog = <<>> /\ answered = <<>> /\ dropped = {} /\ workerErrors = 0
  /\ notified = <<>> /\ lastTaken = 0 /\ cleared = FALSE /\ pausedAt = NoAudio
  /\ clicks = 0 /\ lateTimers = 0 /\ aqTask = NoTask

NextLoad ==
  \/ EngineDevice
  \/ EngineLoaded
  \/ EngineLoadFails
  \/ EngineNoListener
  \/ NextEngine
  \/ DoTerminate

SpecLoad == InitLoad /\ [][NextLoad]_vars

\* The same with an event loop that handles every message and timer and a
\* worker that keeps taking its steps.
WorkerStep ==
  EngineDevice \/ EngineLoaded \/ EngineLoadFails \/ EngineNoListener \/ Engine

SpecLoadFair ==
  /\ SpecLoad
  /\ WF_vars(Deliver("none")) /\ WF_vars(TimerFires) /\ WF_vars(WorkerStep)

\* The start of a session on any small book: the content provider's answer is
\* put together chapter by chapter and paragraph by paragraph before the user
\* presses Read Aloud once; the run ends when handlePlay() has prepared the
\* chunks and submitted the first.
ChapterNumbers == {1, 12}
Titles == {<<>>, <<"T">>}
Paragraphs == {<<>>, <<" ">>, <<"a">>, <<" ", "b", "\t">>}

Unasked == clicks = 0 /\ fetches = 0

ProviderAnswers ==
  /\ Unasked /\ apiContent = NullContent
  /\ apiContent' \in {UnlistedContent, EmptyContent}
  /\ UNCHANGED <<svcVars, engVars, aqVars, histVars, toMain, isGenerating, isPlaying,
                 isPaused, currentParagraphIndex, paragraphQueue, error, fetches,
                 bookDetails>>

AddChapter(number, title) ==
  /\ Unasked /\ apiContent.listed /\ Len(apiContent.chapters) < MaxChapters
  /\ apiContent' =
       [apiContent EXCEPT !.chapters =
          Append(@, [chapterNumber |-> number, chapterTitle |-> title,
                     chapterContents |-> <<>>])]
  /\ UNCHANGED <<svcVars, engVars, aqVars, histVars, toMain, isGenerating, isPlaying,
                 isPaused, currentParagraphIndex, paragraphQueue, error, fetches,
                 bookDetails>>

RECURSIVE CountParagraphs(_)
CountParagraphs(chapters) ==
  IF chapters = <<>> THEN 0
  ELSE Len(Head(chapters).chapterContents) + CountParagraphs(Tail(chapters))

AddParagraph(paragraph) ==
  /\ Unasked /\ apiContent.chapters # <<>>
  /\ CountParagraphs(apiContent.chapters) < MaxParas
  /\ apiContent' =
       [apiContent EXCEPT !.chapters[Len(apiContent.chapters)].chapterContents =
          Append(@, paragraph)]
  /\ UNCHANGED <<svcVars, engVars, aqVars, histVars, toMain, isGenerating, isPlaying,
                 isPaused, currentParagraphIndex, paragraphQueue, error, fetches,
                 bookDetails>>

InitChunks ==
  \E details \in {PlainDetails, BlankDetails} : InitFor("page", details, NullContent)

NextChunks ==
  \/ ProviderAnswers
  \/ \E number \in ChapterNumbers, title \in Titles : AddChapter(number, title)
  \/ \E paragraph \in Paragraphs : AddParagraph(paragraph)
  \/ UserPlayFirst
  \/ FetchReturns(apiContent)

SpecChunks == InitChunks /\ [][NextChunks]_vars

\* A session on a book with blank paragraphs: one chapter whose first and last
\* paragraphs are blank, or a chapter with only a blank paragraph followed by
\* a chapter without paragraphs.
BlankBooks ==
  {[fetched |-> TRUE, listed |-> TRUE,
    chapters |-> <<[chapterNumber |-> 1, chapterTitle |-> <<>>,
                    chapterContents |-> << <<" ">>, <<"a">>, <<>> >>]>>],
   [fetched |-> TRUE, listed |-> TRUE,
    chapters |-> <<[chapterNumber |-> 1, chapterTitle |-> <<"T">>,
                    chapterContents |-> << <<" ", "\t">> >>],
                   [chapterNumber |-> 2, chapterTitle |-> <<>>,
                    chapterContents |-> <<>>]>>]}

InitBlank == \E content \in BlankBooks : InitFor("page", PlainDetails, content)

NextBlank ==
  \/ UserPlayFirst
  \/ FetchReturns(apiContent)
  \/ Deliver("none")
  \/ PlayStarts
  \/ PlayEnds
  \/ Engine

SpecBlank == InitBlank /\ [][NextBlank]_vars

\* The playback queue under a client that calls addToQueue and clearQueue, as
\* the page does, with audio elements that start, fail to start and end.
ClientAdd ==
  /\ genCount < MaxBlobs
  /\ genCount' = genCount + 1
  /\ Commit(AddToQueue(St, [req |-> 0, k |-> 0, g |-> genCount + 1]))
  /\ UNCHANGED <<isProcessing, engReq, engCount, tts, toMain, workerErrors, clicks,
                 lateTimers>>

ClientClear ==
  /\ Commit(ClearQueue(St))
  /\ UNCHANGED <<engVars, toMain, workerErrors, clicks, lateTimers>>

NextAudio == ClientAdd \/ ClientClear \/ PlayStarts \/ PlayFails \/ PlayEnds

SpecAudio == InitQueue /\ [][NextAudio]_vars

\* ------------------------------------------------------------- properties
Range(q) == {q[i] : i \in 1..Len(q)}

\* The requests posted to the worker so far.
Posted == Range(postLog)

\* The posted requests for which no 'complete' or 'error' has been handled.
InFlight == {id \in Posted : answered[id] = "none"}

\* The ids of q grow from head to tail: q is in the order of the generateSpeech calls.
InCallOrder(q) == \A i, j \in 1..Len(q) : i < j => q[i] < q[j]

\* The request the step posts, or 0 when it posts none.
PostedByStep == IF Len(postLog') > Len(postLog) THEN postLog'[Len(postLog')] ELSE 0

\* The pending list as processNextInQueue finds it at the end of a message
\* handler: the list before, then what the callback submitted.
PendingAtEnd ==
  requestQueue \o [i \in 1..(Len(requests') - Len(requests)) |-> Len(requests) + i]

\* What processNextInQueue does with PendingAtEnd once the busy flag is clear.
HeadIsPosted ==
  IF PendingAtEnd = <<>>
  THEN ~isBusy' /\ postLog' = postLog /\ requestQueue' = <<>>
  ELSE /\ isBusy'
       /\ postLog' = Append(postLog, Head(PendingAtEnd))
       /\ requestQueue' = Tail(PendingAtEnd)

\* C1: as long as the worker is live and has raised no 'error' event, at most
\* one posted request is unanswered: no request is posted while an earlier one
\* waits for its 'complete' or 'error'.
C1_AtMostOneInFlight ==
  (worker /\ workerErrors = 0) => Cardinality(InFlight) <= 1

\* C1 witness: one request is in flight and two requests wait behind it.
C1_Witness ==
  /\ worker /\ workerErrors = 0
  /\ Cardinality(InFlight) = 1 /\ Len(requestQueue) >= 2 /\ isBusy

\* C3 as claimed: the request the backoff timer's task posts is the request
\* that was answered 'already started' (it is retried ahead of the pending ones).
C3_RetriesSameRequest ==
  [][(timers' = timers - 1 /\ PostedByStep # 0) => answered[PostedByStep] = "busy"]_vars

\* C5: the posted requests followed by the pending ones are in the order of the
\* generateSpeech calls, so a pending request is never posted ahead of time or
\* out of turn; and the task that handles the 'complete' of the request the
\* queue is busy with posts the head of the pending list itself (a request the
\* callback submits joins the tail).
C5_AutoDequeueInOrder ==
  [][/\ InCallOrder(postLog' \o requestQueue')
     /\ (isBusy /\ \E a \in 1..Len(answered) :
                      answered[a] = "none" /\ answered'[a] = "complete")
          => HeadIsPosted]_vars

\* C5 witness: B waited while A was in flight, A was answered 'complete', and
\* B has been posted right after A.
C5_Witness ==
  /\ workerErrors = 0 /\ timers = 0
  /\ \E i \in 1..(Len(postLog) - 1) :
        /\ answered[postLog[i]] = "complete"
        /\ requests[postLog[i + 1]].waited

\* C6 as claimed: a request answered with an error other than 'already
\* started' has a rejected promise.
C6_ErrorRejectsHandle ==
  \A a \in 1..Len(answered) : answered[a] = "error" => handle[a] = "rejected"

\* C6 amended: a request answered with an error other than 'already started'
\* keeps the promise that was resolved when it was posted; the error reaches
\* the caller through onError.
C6_ErrorLeavesHandleResolved ==
  \A a \in 1..Len(answered) :
     answered[a] = "error" => (handle[a] = "resolved" /\ notified[a] = "onError")

\* C6 witness: a request has been answered with such an error.
C6_Witness ==
  \E a \in 1..Len(answered) : answered[a] = "error" /\ a \in Posted

\* C7: the task that handles an error other than 'already started' while the
\* busy flag is set ends with the head of the pending list posted and the rest pending in the same order
\* (or, with nothing pending, with the busy flag clear); the failed request is
\* not pending again, and no request is ever posted twice.
C7_ErrorAdvancesQueue ==
  [][/\ \A i, j \in 1..Len(postLog') : i # j => postLog'[i] # postLog'[j]
     /\ \A a \in 1..Len(answered) :
          (isBusy /\ answered[a] = "none" /\ answered'[a] = "error")
            => (HeadIsPosted /\ a \notin Range(requestQueue'))]_vars

\* C7 witness: B waited while A was in flight, A was answered with an error,
\* and B has been posted right after A.
C7_Witness ==
  /\ workerErrors = 0 /\ timers = 0
  /\ \E i \in 1..(Len(postLog) - 1) :
        /\ answered[postLog[i]] = "error"
        /\ requests[postLog[i + 1]].waited

\* C8: a pending request has an unsettled promise, and a promise is resolved
\* exactly when its request has been posted, so already while the request is
\* on its way to the worker and no message about it exists.
C8_ResolvedWhenPosted ==
  \A id \in 1..Len(requests) :
     /\ id \in Range(requestQueue) => handle[id] = "pending"
     /\ id \in Posted <=> handle[id] = "resolved"
     /\ handle[id] = "pending" =>
          \A i \in 1..Len(toMain) : toMain[i].req # id

\* C8 witness: a request is on its way to the worker with its promise
\* resolved, and a request behind it is pending.
C8_Witness ==
  /\ toWorker # <<>> /\ handle[Head(toWorker)] = "resolved"
  /\ requestQueue # <<>> /\ handle[Head(requestQueue)] = "pending"

\* C9: once terminate() has run there is no worker, nothing is pending or on
\* its way and the busy flag is clear; the requests it dropped are never
\* posted and their promises stay unsettled, whatever timer fires later.
C9_TerminateAbandons ==
  /\ ~worker => (requestQueue = <<>> /\ ~isBusy /\ toWorker = <<>> /\ toMain = <<>>)
  /\ \A id \in dropped : handle[id] = "pending" /\ id \notin Posted

\* C9 witness: terminate() dropped a pending request and a backoff timer set
\* before it has fired since.
C9_Witness == ~worker /\ dropped # {} /\ lateTimers > 0

\* C2: in the runs where clearQueue() removes nothing, playNext() takes the
\* segments in the order the engine generated them, none skipped, and it takes
\* one only when no audio element is left from the one before.
C2_PlaybackInGenerationOrder ==
  [][/\ lastTaken' = lastTaken \/ lastTaken' = lastTaken + 1
     /\ Cardinality(audios') <= 1
     /\ ~cleared']_vars

\* C2 witness: a segment of the first request plays while a segment of the
\* second, preloaded, request is queued behind it.
C2_Witness ==
  /\ \E e \in audios : e.st = "playing" /\ e.seg.req = 1
  /\ \E i \in 1..Len(audioQueue) : audioQueue[i].req = 2

\* C4 as claimed: after a stop, no segment of a request submitted before that
\* stop is queued or held by an audio element.
C4_NoStaleSegments ==
  /\ \A i \in 1..Len(audioQueue) : ~requests[audioQueue[i].req].stale
  /\ \A e \in audios : ~requests[e.seg.req].stale

\* C10 as claimed: a resume after a pause during the second segment of a unit
\* submits that unit again.
C10_ResumeResubmitsPausedUnit ==
  [][(isPaused /\ ~isPaused' /\ isPlaying' /\ fetches' = fetches /\ pausedAt.k = 2)
       => /\ Len(requests') = Len(requests) + 1
          /\ requests'[Len(requests')].unit = requests[pausedAt.req].unit]_vars

\* The segments in the playback queue.
Queued == Range(audioQueue)

\* Every segment is handled at most once: playNext() makes an audio element
\* only for a segment it never took before, an element plays only after its
\* own start, and what is queued has not been taken yet.
StartsAtMostOnce ==
  /\ \A e \in audios' :
       /\ e.st = "starting" => (e \in audios \/ e.seg.g > lastTaken)
       /\ e.st = "playing" => (e \in audios \/ Element(e.seg, "starting") \in audios)
       /\ e.st = "aborted" => (e \in audios \/ Element(e.seg, "starting") \in audios)
  /\ \A i \in 1..Len(audioQueue') : audioQueue'[i].g > lastTaken'
  /\ \A i, j \in 1..Len(audioQueue') : i < j => audioQueue'[i].g < audioQueue'[j].g

\* A queued segment leaves the queue only when playNext() starts it or when
\* clearQueue() runs.
LeavesQueueStartedOrCleared ==
  \A seg \in Queued \ Range(audioQueue') :
     Element(seg, "starting") \in audios' \/ aqTask'.op = "clear"

\* C18 as claimed: no segment starts playing twice, and a segment that is gone
\* without having played was removed by clearQueue().
C18_PlaysOnceOrCleared ==
  [][/\ StartsAtMostOnce
     /\ LeavesQueueStartedOrCleared
     /\ \A e \in audios :
          (e.st = "starting" /\ e \notin audios')
            => \/ Element(e.seg, "playing") \in audios'
               \/ aqTask'.op = "clear"]_vars

\* C18 amended: no segment starts playing twice, and a segment that is gone
\* without having played was removed by clearQueue() or released by the catch
\* of its play() call, which then ran playNext().
C18_PlaysOnceOrClearedOrFailed ==
  [][/\ StartsAtMostOnce
     /\ LeavesQueueStartedOrCleared
     /\ \A e \in audios :
          (e.st = "starting" /\ e \notin audios')
            => \/ Element(e.seg, "playing") \in audios'
               \/ aqTask'.op = "clear" /\ Element(e.seg, "aborted") \in audios'
               \/ /\ aqTask'.op = "failed"
                  /\ currentAudio' = IF audioQueue = <<>> THEN NoAudio
                                     ELSE Head(audioQueue)]_vars

\* C18 witness: the start of a segment has just failed while an earlier
\* segment had its start aborted by clearQueue() and a later one is queued.
C18_Witness ==
  /\ aqTask.op = "failed" /\ cleared
  /\ currentAudio # NoAudio /\ audioQueue # <<>>

\* C19 as claimed: a task runs onQueueEmpty exactly when it is the end of a
\* segment with nothing queued.
C19_QueueEmptyOnlyAtEnd ==
  [][aqTask'.emptied <=> (aqTask'.op = "ended" /\ audioQueue = <<>>)]_vars

\* C19 amended: a task runs onQueueEmpty exactly when playNext() finds nothing
\* queued, which is at the end of a segment or in the catch of a play() call
\* (a start that failed or that clearQueue() aborted); addToQueue() and
\* clearQueue() never run it themselves.
C19_QueueEmptyWhenNothingQueued ==
  [][aqTask'.emptied <=>
       (aqTask'.op \in {"ended", "failed"} /\ audioQueue = <<>>)]_vars

\* C19 witness: the catch of a play() call has run onQueueEmpty.
C19_Witness == aqTask.emptied /\ aqTask.op = "failed"

\* Whenever a segment is queued, currentAudio is an element that is starting
\* or playing, so that an event of it will run playNext().
NoStall ==
  audioQueue # <<>> =>
    \E e \in audios : e.seg = currentAudio /\ e.st \in {"starting", "playing"}

\* C20: the catch of a play() call starts the head of the queue and leaves the
\* rest queued in the same order; segments are taken in the order they were
\* added; and the queue never holds segments with nothing to play them.
C20_FailedStartAdvances ==
  [][/\ NoStall'
     /\ lastTaken' >= lastTaken
     /\ (aqTask'.op = "failed" /\ audioQueue # <<>>)
          => /\ currentAudio' = Head(audioQueue)
             /\ Element(Head(audioQueue), "starting") \in audios'
             /\ audioQueue' = Tail(audioQueue)]_vars

\* C20 witness: a start has failed, the next segment is starting and another
\* one is queued behind it.
C20_Witness ==
  /\ aqTask.op = "failed" /\ ~cleared
  /\ \E e \in audios : e.seg = currentAudio /\ e.st = "starting"
  /\ audioQueue # <<>>

\* The requests that are outstanding: submitted, and not yet answered or
\* with a segment still on its way, queued, starting or playing.
Outstanding ==
  {id \in 1..Len(requests) :
     \/ answered[id] = "none"
     \/ \E i \in 1..Len(toMain) : toMain[i].req = id
     \/ \E i \in 1..Len(audioQueue) : audioQueue[i].req = id
     \/ \E e \in audios : e.seg.req = id /\ e.st # "aborted"}

\* The units every chunk of the book has been submitted for.
Submitted == {requests[id].unit : id \in 1..Len(requests)}

\* C11 as claimed: at most two units are outstanding at any instant.
C11_AtMostTwoOutstanding ==
  Cardinality({requests[id].unit : id \in Outstanding}) <= 2

\* The last unit has been synthesized and everything generated has been
\* played: every unit was submitted and answered 'complete', and nothing is
\* on its way, queued or playing.
BookFinished ==
  /\ paragraphQueue # <<>>
  /\ Submitted = 0..(Len(paragraphQueue) - 1)
  /\ \A id \in 1..Len(requests) : answered[id] = "complete"
  /\ toMain = <<>> /\ audioQueue = <<>> /\ audios = {}
  /\ lastTaken = genCount

\* C12 as claimed: once the book is finished the page reaches Stopped.
C12_NaturalEndDetected == BookFinished ~> (~isPlaying /\ ~isGenerating)

\* C13 as claimed: once the chunk sequence exists, every unit of it is
\* eventually submitted.
C13_EveryUnitSubmitted ==
  (paragraphQueue # <<>>) ~> (Submitted = 0..(Len(paragraphQueue) - 1))

\* C14 as claimed: currentParagraphIndex never decreases, except that a stop
\* sets it back to 0.
C14_IndexNeverDecreases ==
  [][\/ currentParagraphIndex' >= currentParagraphIndex
     \/ currentParagraphIndex' = 0 /\ clicks' = clicks + 1 /\ ~isPlaying']_vars

\* C15 as claimed: wherever the Stop button is shown, a second stop changes
\* nothing of what the first one left of the page and of the playback queue,
\* and that is: not playing, not paused, not generating, index 0, nothing
\* queued, no current audio and no audio element that plays or is going to.
C15_StopIdempotent ==
  isPlaying =>
    LET once == HandleStop(St)
        twice == HandleStop(once) IN
    /\ twice.isPlaying = once.isPlaying /\ twice.isPaused = once.isPaused
    /\ twice.isGenerating = once.isGenerating
    /\ twice.currentParagraphIndex = once.currentParagraphIndex
    /\ twice.audioQueue = once.audioQueue /\ twice.currentAudio = once.currentAudio
    /\ twice.audios = once.audios
    /\ ~once.isPlaying /\ ~once.isPaused /\ ~once.isGenerating
    /\ once.currentParagraphIndex = 0
    /\ once.audioQueue = <<>> /\ once.currentAudio = NoAudio
    /\ \A e \in once.audios : e.st = "aborted"

\* C16: a pause ends with the paused flag set, nothing queued and no current
\* audio, and it leaves the request queue as it was: the busy flag, the
\* pending requests and their order, what is on its way to the worker, what
\* has been posted, the promises, and currentParagraphIndex.
C16_PauseLeavesRequests ==
  [][(~isPaused /\ isPaused')
       => /\ audioQueue' = <<>> /\ currentAudio' = NoAudio
          /\ isPlaying'
          /\ isBusy' = isBusy /\ requestQueue' = requestQueue
          /\ toWorker' = toWorker /\ postLog' = postLog
          /\ requests' = requests /\ handle' = handle /\ answered' = answered
          /\ InFlight' = InFlight
          /\ currentParagraphIndex' = currentParagraphIndex]_vars

\* C16 witness: the page is paused, at index 1, with a request in flight and
\* another one pending behind it.
C16_Witness ==
  /\ isPaused /\ currentParagraphIndex = 1 /\ cleared
  /\ InFlight # {} /\ requestQueue # <<>>

\* C17: the task that handles an engine error sets the error, clears the
\* generating flag and leaves the playback queue alone: what is queued, the
\* current audio and the audio elements are as before. And with the error
\* shown, the end of a segment still starts the segment queued next.
C17_ErrorKeepsPlayback ==
  [][/\ (\E a \in 1..Len(answered) : answered[a] = "none" /\ answered'[a] = "error")
          => /\ error' /\ ~isGenerating'
             /\ audioQueue' = audioQueue /\ currentAudio' = currentAudio
             /\ audios' = audios /\ lastTaken' = lastTaken
     /\ (error /\ audioQueue # <<>>
           /\ \E e \in audios : e.st = "playing" /\ e \notin audios')
          => /\ Element(Head(audioQueue), "starting") \in audios'
             /\ audioQueue' = Tail(audioQueue)
             /\ lastTaken' = lastTaken + 1]_vars

\* C17 witness: the second request was answered with an error while a
\* segment of the first one is playing and another one is queued.
C17_Witness ==
  /\ Len(answered) >= 2 /\ answered[2] = "error" /\ error
  /\ \E e \in audios : e.st = "playing" /\ e.seg.req = 1
  /\ \E i \in 1..Len(audioQueue) : audioQueue[i].req = 1

\* C21 as claimed: an object URL is held only for a segment that still has
\* its audio element: the current one, or one whose play() is yet to settle.
C21_UrlsReleased ==
  \A g \in objectUrls : \E e \in audios : e.seg.g = g

\* The audio elements that are playing.
Playing == {e \in audios : e.st = "playing"}

\* C30 as claimed: at most one audio element is playing.
C30_AtMostOnePlaying == Cardinality(Playing) <= 1

\* C28: in one narration without pause or stop the units are submitted in
\* the order of the chunk sequence, from unit 0, each exactly once and none
\* skipped: the n-th generateSpeech call is for unit n - 1.
C28_SubmitsInOrder ==
  /\ \A id \in 1..Len(requests) : requests[id].unit = id - 1
  /\ currentParagraphIndex = IF requests = <<>> THEN 0 ELSE Len(requests) - 1

\* C28 witness: every unit of the book has been submitted.
C28_Witness ==
  /\ paragraphQueue # <<>> /\ Len(requests) = Len(paragraphQueue)
  /\ currentParagraphIndex = Len(paragraphQueue) - 1

\* The positions in toMain of the messages about request id, and of the
\* terminal ones among them.
About(id) == {i \in 1..Len(toMain) : toMain[i].req = id}
TerminalAbout(id) == {i \in About(id) : toMain[i].status # "stream"}

\* What the engine has posted about request id is well formed: at most one
\* terminal message, nothing behind it and nothing once it has been handled;
\* 'stream' messages in the order of generation; while the engine processes
\* the request no terminal message exists; and a request that was refused
\* (text or voice not accepted, or 'already started') has its 'error' alone.
WellFormedAbout(id) ==
  /\ Cardinality(TerminalAbout(id)) <= 1
  /\ \A t \in TerminalAbout(id) : \A i \in About(id) : i <= t
  /\ answered[id] # "none" => About(id) = {}
  /\ engReq = id =>
       (isProcessing /\ requests[id].valid /\ TerminalAbout(id) = {}
        /\ answered[id] = "none")
  /\ \A i, j \in About(id) :
       (i < j /\ toMain[i].status = "stream" /\ toMain[j].status = "stream")
         => (toMain[i].k < toMain[j].k /\ toMain[i].g < toMain[j].g)
  /\ \A t \in TerminalAbout(id) :
       (toMain[t].error = AlreadyStarted \/ ~requests[id].valid) => About(id) = {t}
  /\ (id \in Range(toWorker) \/ id \in Range(requestQueue))
       => (About(id) = {} /\ engReq # id)

LoadErrorsPending ==
  {i \in 1..Len(toMain) : toMain[i].status = "error" /\ toMain[i].req = 0}

\* The failure to load the model has been reported by the worker.
LoadFailureReported == loadErrors > 0 \/ LoadErrorsPending # {}

\* C27: once the load of the model has failed it stays failed (no retry);
\* while the worker lives there is exactly one report of the failure, either
\* its 'error' message still to be handled or the one run of the error
\* callback that handling it makes; no 'ready' is posted, so initialize()
\* never resolves; and no request starts processing or produces a segment.
C27_LoadFailureTerminal ==
  [][/\ (tts = "failed" \/ LoadFailureReported) =>
          /\ tts = "failed" /\ tts' = "failed"
          /\ initialized # "resolved"
          /\ \A i \in 1..Len(toMain) : toMain[i].status \notin {"ready", "stream"}
          /\ ~isProcessing /\ genCount = 0
          /\ loadErrors + Cardinality(LoadErrorsPending) <= 1
          /\ worker => loadErrors + Cardinality(LoadErrorsPending) = 1
     /\ loadErrors' # loadErrors =>
          (toMain # <<>> /\ Head(toMain).status = "error" /\ Head(toMain).req = 0
           /\ loadErrors' = 1)]_vars

\* C27 witness: the load has failed, the error callback has run for it, and a
\* request posted to the worker has disappeared without an answer while the
\* service still waits for it.
C27_Witness ==
  /\ tts = "failed" /\ loadErrors = 1 /\ worker
  /\ postLog # <<>> /\ toWorker = <<>> /\ toMain = <<>>
  /\ isBusy /\ answered[postLog[Len(postLog)]] = "none"
  /\ initialized = "pending"

\* A paragraph that has a character other than white space.
HasText(paragraph) == \E j \in 1..Len(paragraph) : paragraph[j] \notin WhiteSpace

\* The paragraphs of a chapter that have text, in their order.
NonBlankOf(chapter) == SelectSeq(chapter.chapterContents, HasText)

\* The units that come before the heading of chapter c.
RECURSIVE UnitsBefore(_, _)
UnitsBefore(chapters, c) ==
  IF c = 1 THEN 1
  ELSE UnitsBefore(chapters, c - 1) + 1 + Len(NonBlankOf(chapters[c - 1]))

\* C22: the prepared sequence is the title/author unit, then for each chapter
\* in order its heading ('Chapter N: Title', or 'Chapter N' without a title)
\* followed by one unit for each of its paragraphs that has text, in order;
\* it has 1 + chapters + paragraphs with text units.
C22_ExactSequence ==
  paragraphQueue # <<>> =>
    LET chapters == apiContent.chapters
        n == Len(chapters)
        withText == {<<c, j>> \in (1..n) \X (1..MaxParas) :
                       /\ j <= Len(chapters[c].chapterContents)
                       /\ HasText(chapters[c].chapterContents[j])} IN
    /\ Len(paragraphQueue) = 1 + n + Cardinality(withText)
    /\ ~paragraphQueue[1].isChapterTitle
    /\ paragraphQueue[1].chapterNumber = NoChapter
    /\ paragraphQueue[1].text =
         (IF bookDetails.title = <<>> THEN <<"B", "o", "o", "k">> ELSE bookDetails.title)
         \o <<" ", "b", "y", " ">>
         \o (IF bookDetails.author = <<>>
             THEN <<"U", "n", "k", "n", "o", "w", "n", " ", "a", "u", "t", "h", "o", "r">>
             ELSE bookDetails.author)
         \o <<".">>
    /\ \A c \in 1..n :
         LET at == UnitsBefore(chapters, c) + 1
             texts == NonBlankOf(chapters[c])
             number == <<"C", "h", "a", "p", "t", "e", "r", " ">>
                         \o (IF chapters[c].chapterNumber = 12 THEN <<"1", "2">>
                             ELSE <<"1">>) IN
         /\ at + Len(texts) <= Len(paragraphQueue)
         /\ paragraphQueue[at].isChapterTitle
         /\ paragraphQueue[at].chapterNumber = chapters[c].chapterNumber
         /\ paragraphQueue[at].text =
              IF chapters[c].chapterTitle = <<>> THEN number
              ELSE number \o <<":", " ">> \o chapters[c].chapterTitle
         /\ \A r \in 1..Len(texts) :
              /\ ~paragraphQueue[at + r].isChapterTitle
              /\ paragraphQueue[at + r].chapterNumber = chapters[c].chapterNumber
              /\ Trim(paragraphQueue[at + r].text) = Trim(texts[r])

\* C22 witness: a book of two chapters, numbered 12 and 1, the first with a
\* title, with one blank paragraph and one with text, has become four units.
C22_Witness ==
  /\ Len(apiContent.chapters) = 2
  /\ apiContent.chapters[1].chapterNumber = 12 /\ apiContent.chapters[1].chapterTitle # <<>>
  /\ apiContent.chapters[2].chapterNumber = 1 /\ apiContent.chapters[2].chapterTitle = <<>>
  /\ apiContent.chapters[1].chapterContents = << <<" ">>, <<"a">> >>
  /\ Len(paragraphQueue) = 4

\* C23: no unit is blank; every request is for a unit with text; and a chapter
\* without a paragraph that has text has its heading as its only unit.
C23_BlankDropped ==
  /\ \A i \in 1..Len(paragraphQueue) : HasText(paragraphQueue[i].text)
  /\ \A id \in 1..Len(requests) :
       /\ requests[id].unit + 1 \in 1..Len(paragraphQueue)
       /\ HasText(paragraphQueue[requests[id].unit + 1].text)
  /\ paragraphQueue # <<>> =>
       \A c \in 1..Len(apiContent.chapters) :
          NonBlankOf(apiContent.chapters[c]) = <<>> =>
            LET own == {i \in 1..Len(paragraphQueue) :
                          paragraphQueue[i].chapterNumber
                            = apiContent.chapters[c].chapterNumber} IN
            /\ Cardinality(own) = 1
            /\ \A i \in own : paragraphQueue[i].isChapterTitle

\* C23 witness: the book whose first chapter has only a blank paragraph and
\* whose second has none is narrated to its last unit, the second heading.
C23_Witness ==
  /\ Len(apiContent.chapters) = 2
  /\ Len(paragraphQueue) = 3
  /\ Len(requests) = 3 /\ requests[3].unit = 2

NoChapters(content) ==
  ~content.fetched \/ ~content.listed \/ content.chapters = <<>>

\* C25: when the fetch of a content without chapters returns, the session
\* ends with the error: nothing is submitted, isPlaying and isGenerating are
\* false and the error is set.
C25_ContentError ==
  [][(fetches' < fetches /\ NoChapters(apiContent)) =>
       /\ requests' = requests /\ requestQueue' = requestQueue
       /\ toWorker' = toWorker /\ postLog' = postLog
       /\ paragraphQueue' = paragraphQueue
       /\ ~isPlaying' /\ ~isGenerating' /\ error']_vars

\* C25 witness: the provider answered without a chapter list and the session
\* has ended with the error.
C25_Witness ==
  /\ apiContent = UnlistedContent /\ clicks = 1 /\ fetches = 0
  /\ error /\ ~isPlaying /\ ~isGenerating /\ requests = <<>>

\* C29: the text of every unit is not empty and neither begins nor ends with
\* white space.
C29_UnitsTrimmed ==
  \A i \in 1..Len(paragraphQueue) :
     LET text == paragraphQueue[i].text IN
     /\ text # <<>>
     /\ Head(text) \notin WhiteSpace
     /\ text[Len(text)] \notin WhiteSpace

\* The controller is Stopped: not playing, not paused, not generating, at
\* unit 0.
Stopped ==
  ~isPlaying /\ ~isPaused /\ ~isGenerating /\ currentParagraphIndex = 0

\* The step is a call of handlePlay() that starts a session.
PlayCalled == fetches' = fetches + 1

\* C31: from a Stopped controller no step other than a call of play() submits
\* a request or leaves Stopped.
C31_StoppedStays ==
  [][(Stopped /\ ~PlayCalled) => (requests' = requests /\ Stopped')]_vars

\* C32: while the controller is paused no audio element begins to play.
C32_NoStartWhilePaused ==
  [][isPaused => (Playing' \subseteq Playing)]_vars

\* C33: whenever the busy flag is clear and requests are pending, the head of
\* the pending list is eventually posted to the worker (or the service is
\* terminated).
C33_NoLostWakeUp ==
  \A id \in 1..MaxEngineReq :
     (~isBusy /\ requestQueue # <<>> /\ Head(requestQueue) = id)
       ~> (id \in Range(postLog) \/ ~worker)

====
